---- MODULE Spec2Model ----
(***************************************************************************)
(* Byword intake API (src/server.js) and its browser-side connector        *)
(* (src/byword-api-connector.js).                                          *)
(*                                                                         *)
(* Server: an Express application.  One request at a time runs through the *)
(* middleware chain (CORS -> express.json() -> router -> handler -> error  *)
(* middleware / 404 handler); a request whose JSON body is still being     *)
(* read is parked in `reading` and the event loop is free for others.      *)
(* A request's attributes are drawn when the chain first reads them.       *)
(*                                                                         *)
(* Client: BywordAPIConnector with its health check and the three form     *)
(* submit listeners.                                                       *)
(***************************************************************************)
EXTENDS Integers, Sequences, FiniteSets, TLC

VARIABLES
    expressMajor,   \* major version of the express package that is installed
    port,           \* process.env.PORT || 8080
    now,            \* the process clock, epoch milliseconds (Date.now())
    cur,            \* the request the event loop is running through the chain
    reading,        \* number of requests parked while express.json() reads their body
    lastId,         \* per submission endpoint: suffix of the last id issued
    errorsSeen,     \* statuses among 404, 500 that earlier requests ended in
    isHealthy,      \* BywordAPIConnector.isHealthy
    health,         \* progress of checkHealth()
    forms,          \* per form type: the form's fields and its submit
    alerts          \* per form type: the alert dialogs shown, in order

serverVars == <<expressMajor, port, now, cur, reading, lastId, errorsSeen>>
clientVars == <<isHealthy, health, forms, alerts>>
vars == <<serverVars, clientVars>>

(***************************************************************************)
(* Bounds of the model.                                                    *)
(***************************************************************************)
ClockStart == 9
MaxTicks == 1
MaxInFlight == 1
MaxSubmits == 3

(***************************************************************************)
(* JavaScript values.                                                      *)
(***************************************************************************)
Undefined == "<undefined>"
Unread == "<unread>"

\* Decimal digits of a non-negative integer, as template literals print it.
RECURSIVE Digits(_)
Digits(n) ==
    IF n < 10
    THEN <<(<<"0", "1", "2", "3", "4", "5", "6", "7", "8", "9">>)[n + 1]>>
    ELSE Digits(n \div 10) \o Digits(n % 10)

\* new Date().toISOString(): the instant, as text; only the instant is kept.
ToISOString(t) == [iso |-> Digits(t)]

(***************************************************************************)
(* Requests.  A path is the sequence of its segments: "/" is <<"">>,       *)
(* "/health" is <<"health">>, "/health/" is <<"health", "">>.              *)
(***************************************************************************)
Methods == {"GET", "POST", "HEAD", "OPTIONS"}

RootPath == <<"">>
HealthPath == <<"health">>
StatusPath == <<"api", "status">>
ContactPath == <<"api", "contact">>
IntakePath == <<"api", "intake">>
CateringPath == <<"api", "catering">>

RequestPaths ==
    { RootPath, HealthPath, StatusPath, ContactPath, IntakePath, CateringPath,
      <<"missing">>, <<"HEALTH">>, <<"api", "intake", "">> }

JsonType == "application/json"
ContentTypes == {JsonType, "text/plain"}

\* A request body as sent: what kind of text it is, the service_type member
\* when it is a JSON object, and its length in bytes.
Absent == [kind |-> "absent", service_type |-> Undefined, len |-> 0]
ObjectBody(st, n) == [kind |-> "object", service_type |-> st, len |-> n]

\* express.json() default options: limit '100kb', strict.
JsonLimit == 102400

SentBodies ==
    { ObjectBody(Undefined, 2),                 \* {}
      ObjectBody("legal", 24),                  \* {"service_type":"legal"}
      ObjectBody("catering", 27),
      ObjectBody("Legal", 24),
      ObjectBody("legal", JsonLimit),
      ObjectBody("legal", JsonLimit + 1),
      [kind |-> "array", service_type |-> Undefined, len |-> 2],      \* []
      [kind |-> "primitive", service_type |-> Undefined, len |-> 7],  \* "legal"
      [kind |-> "malformed", service_type |-> Undefined, len |-> 4] } \* {bad

\* Bodies sent with a content type express.json() does not parse.
UnparsedBodies ==
    { ObjectBody("legal", 24),
      [kind |-> "malformed", service_type |-> Undefined, len |-> 4] }

(***************************************************************************)
(* Responses.                                                              *)
(***************************************************************************)
NoBody == [type |-> "none"]
TextBody(s) == [type |-> "text", value |-> s]
JsonBody(p) == [type |-> "json", value |-> p]

NewResponse == [status |-> 200, headers |-> {}, body |-> NoBody]

\* res.header(name, value)
ResHeader(res, n, v) ==
    [res EXCEPT !.headers = {h \in @ : h.name # n} \cup {[name |-> n, value |-> v]}]

NoError == [name |-> "", message |-> "", status |-> 0]

\* req.body once express.json() has run
UndefinedBody == [kind |-> "undefined", service_type |-> Undefined]
EmptyObject == [kind |-> "object", service_type |-> Undefined]

Idle ==
    [ stage    |-> "idle",
      method   |-> Unread,
      path     |-> <<Unread>>,
      ctype    |-> Unread,
      raw      |-> [kind |-> Unread, service_type |-> Undefined, len |-> 0],
      body     |-> UndefinedBody,
      route    |-> Unread,
      err      |-> NoError,
      res      |-> NewResponse,
      sent     |-> 0,
      trail    |-> <<>>,
      prevId   |-> <<>> ]

\* What the response writers do to the request in hand; the body is the one
\* the handler hands over.
Send(c, status, body) ==
    [c EXCEPT !.res = [@ EXCEPT !.status = status, !.body = body],
              !.sent = @ + 1,
              !.stage = "done"]

\* res.sendStatus(code): the status and its registered message as text
StatusMessage(code) ==
    CASE code = 200 -> "OK"
      [] code = 404 -> "Not Found"
      [] OTHER -> "Internal Server Error"

\* the status is sent and the request handed on as well
ResSendStatus_AndNext(c, code) ==
    [Send(c, code, TextBody(StatusMessage(code))) EXCEPT !.stage = "json"]

ResSendStatus(c, code) == Send(c, code, TextBody(StatusMessage(code)))

\* res.status(code).json(payload), res.json(payload)
ResJson(c, status, payload) == Send(c, status, JsonBody(payload))

Visit(c, name) == [c EXCEPT !.trail = Append(@, name)]

(***************************************************************************)
(* Express routing.  app.get / app.post compile the route path with        *)
(* case-insensitive matching and an optional trailing slash; a GET route   *)
(* also serves HEAD.                                                       *)
(***************************************************************************)
ToLowerCase(seg) ==
    CASE seg = "HEALTH" -> "health"
      [] OTHER -> seg

LowerPath(p) == [i \in 1..Len(p) |-> ToLowerCase(p[i])]

\* the optional trailing "/" of the route's pattern
StripSlash(p) ==
    IF Len(p) > 1 /\ p[Len(p)] = "" /\ p[Len(p) - 1] # ""
    THEN SubSeq(p, 1, Len(p) - 1)
    ELSE p

PathMatches(routePath, p) == StripSlash(LowerPath(p)) = routePath

\* a route that takes every method
MethodMatches_AnyMethod(routeMethod, m) == TRUE

MethodMatches(routeMethod, m) ==
    \/ m = routeMethod
    \/ m = "HEAD" /\ routeMethod = "GET"

\* The routes in the order they are registered.
Routes ==
    << [method |-> "GET",  path |-> HealthPath,   name |-> "GET /health"],
       [method |-> "GET",  path |-> RootPath,     name |-> "GET /"],
       [method |-> "GET",  path |-> StatusPath,   name |-> "GET /api/status"],
       [method |-> "POST", path |-> ContactPath,  name |-> "POST /api/contact"],
       [method |-> "POST", path |-> IntakePath,   name |-> "POST /api/intake"],
       [method |-> "POST", path |-> CateringPath, name |-> "POST /api/catering"] >>

RouteNames == {Routes[i].name : i \in 1..Len(Routes)}
NotFoundName == "404"

\* The first registered route that takes the request, or the 404 handler.
Dispatch(m, p) ==
    LET hits == {i \in 1..Len(Routes) :
                    MethodMatches(Routes[i].method, m) /\ PathMatches(Routes[i].path, p)}
    IN  IF hits = {} THEN NotFoundName
        ELSE Routes[CHOOSE i \in hits : \A j \in hits : i <= j].name

(***************************************************************************)
(* express.json(): skips a request without a body or with another content  *)
(* type; otherwise reads the body (at most JsonLimit bytes) and parses it, *)
(* accepting only objects and arrays.  Failures go to next(err).           *)
(***************************************************************************)
\* req.body of a request the parser did not parse
DefaultBody(major) == IF major = 4 THEN EmptyObject ELSE UndefinedBody

\* a parser that never parses
JsonSkips_Everything(ctype, raw) == TRUE

JsonSkips(ctype, raw) == raw.kind = "absent" \/ ctype # JsonType

JsonFailure(raw) ==
    IF raw.len > JsonLimit
    THEN [name |-> "PayloadTooLargeError", message |-> "request entity too large",
          status |-> 413]
    ELSE IF raw.kind \in {"malformed", "primitive"}
    THEN [name |-> "SyntaxError", message |-> "Unexpected token in JSON",
          status |-> 400]
    ELSE NoError

JsonParse(raw) ==
    IF raw.kind = "object"
    THEN [kind |-> "object", service_type |-> raw.service_type]
    ELSE [kind |-> "array", service_type |-> Undefined]

(***************************************************************************)
(* The payloads the handlers build.                                        *)
(***************************************************************************)
ServiceName == "byword-intake-api"

HealthPayload(t, prt) ==
    [status |-> "healthy", timestamp |-> ToISOString(t), port |-> prt,
     service |-> ServiceName]

RootPayload(prt) ==
    [message |-> "Byword API is running!", port |-> prt, service |-> ServiceName,
     endpoints |-> [health |-> "/health", contact |-> "/api/contact",
                    status |-> "/api/status", intake |-> "/api/intake"]]

StatusPayload(t) ==
    [service |-> ServiceName, status |-> "operational", version |-> "1.0.0",
     uptime |-> (t - ClockStart) \div 1000, timestamp |-> ToISOString(t),
     endpoints_available |-> <<"health", "contact", "status", "intake">>]

\* the timestamp left out of the id
MakeId_NoTimestamp(prefix, t) == prefix

\* only the last digit of the timestamp in the id
MakeId_LastDigit(prefix, t) == prefix \o Digits(t % 10)

\* `PREFIX_${Date.now()}`
MakeId(prefix, t) == prefix \o Digits(t)

ContactPrefix == <<"B", "W", "M", "_">>
IntakePrefix == <<"L", "E", "G", "A", "L", "_">>
CateringPrefix == <<"C", "A", "T", "E", "R", "I", "N", "G", "_">>

ResponseMessage(service_type) ==
    IF service_type = "legal"
    THEN "Thank you for your legal inquiry. Our legal team will review your case and respond promptly."
    ELSE IF service_type = "catering"
    THEN "Thank you for your catering inquiry! We'll send you a custom menu and pricing within 24 hours."
    ELSE "Thank you for your inquiry! We'll be in touch soon."

\* the two estimates swapped
EstimatedResponse_Swapped(service_type) ==
    IF service_type = "legal" THEN "6 hours"
    ELSE IF service_type = "catering" THEN "12 hours"
    ELSE "24 hours"

EstimatedResponse(service_type) ==
    IF service_type = "legal" THEN "12 hours"
    ELSE IF service_type = "catering" THEN "6 hours"
    ELSE "24 hours"

ContactPayload(body, t) ==
    LET estimated_response == EstimatedResponse(body.service_type)
    IN  [success |-> TRUE,
         message |-> ResponseMessage(body.service_type),
         estimated_response_time |-> estimated_response,
         contact_id |-> MakeId(ContactPrefix, t),
         timestamp |-> ToISOString(t),
         next_steps |-> << <<"Your inquiry has been logged">>,
                           <<"Our team will review your request">>,
                           <<"You'll receive a response within ", estimated_response>>,
                           <<"Check your email for confirmation">> >>]

\* the catering handler's status pasted into the intake handler
IntakePayload_CateringStatus(t) ==
    [success |-> TRUE,
     message |-> "Legal intake form submitted successfully",
     case_id |-> MakeId(IntakePrefix, t),
     status |-> "pending_quote",
     next_steps |-> <<"Case has been assigned a unique ID",
                      "Legal team will review within 24 hours",
                      "You'll receive a consultation scheduling email",
                      "All communications will reference your case ID">>,
     estimated_consultation |-> "3-5 business days"]

IntakePayload(t) ==
    [success |-> TRUE,
     message |-> "Legal intake form submitted successfully",
     case_id |-> MakeId(IntakePrefix, t),
     status |-> "pending_review",
     next_steps |-> <<"Case has been assigned a unique ID",
                      "Legal team will review within 24 hours",
                      "You'll receive a consultation scheduling email",
                      "All communications will reference your case ID">>,
     estimated_consultation |-> "3-5 business days"]

CateringPayload(t) ==
    [success |-> TRUE,
     message |-> "Catering inquiry submitted successfully",
     inquiry_id |-> MakeId(CateringPrefix, t),
     status |-> "pending_quote",
     next_steps |-> <<"Our catering team will prepare a custom proposal",
                      "Menu options will be tailored to your event",
                      "Pricing will be provided within 24 hours",
                      "We'll schedule a tasting if desired">>,
     estimated_quote |-> "24 hours"]

\* the error's message withheld
ErrorPayload_Masked(err, t) ==
    [success |-> FALSE, message |-> "Internal server error", error |-> "",
     timestamp |-> ToISOString(t)]

ErrorPayload(err, t) ==
    [success |-> FALSE, message |-> "Internal server error", error |-> err.message,
     timestamp |-> ToISOString(t)]

AvailableEndpoints ==
    <<"/", "/health", "/api/status", "/api/contact", "/api/intake", "/api/catering">>

NotFoundPayload(t) ==
    [success |-> FALSE, message |-> "Endpoint not found",
     available_endpoints |-> AvailableEndpoints, timestamp |-> ToISOString(t)]

(***************************************************************************)
(* The server's operations.                                                *)
(***************************************************************************)
DefaultPort == 8080

\* const port = process.env.PORT || 8080 : the variable's text, or the number
PortValues ==
    { [type |-> "number", digits |-> Digits(DefaultPort)],
      [type |-> "string", digits |-> Digits(3000)] }

SubmissionEndpoints == {"POST /api/contact", "POST /api/intake", "POST /api/catering"}

\* The clock moves on; it never runs backwards.
Tick ==
    /\ now < ClockStart + MaxTicks
    /\ now' = now + 1
    /\ UNCHANGED <<expressMajor, port, cur, reading, lastId, errorsSeen, clientVars>>

\* CORS middleware: a request arrives and the event loop takes it up.
CorsMiddleware ==
    /\ cur.stage = "idle"
    /\ \E m \in Methods :
         LET r1 == ResHeader(NewResponse, "Access-Control-Allow-Origin", "*")
             r2 == ResHeader(r1, "Access-Control-Allow-Methods",
                             "GET, POST, PUT, DELETE, OPTIONS")
             r3 == ResHeader(r2, "Access-Control-Allow-Headers",
                             "Content-Type, Authorization")
             c == [Idle EXCEPT !.method = m, !.res = r3, !.trail = <<"cors">>]
         IN  cur' = IF m = "OPTIONS"
                    THEN ResSendStatus(c, 200)
                    ELSE [c EXCEPT !.stage = "json"]
    /\ UNCHANGED <<expressMajor, port, now, reading, lastId, errorsSeen, clientVars>>

\* express.json(): passes the request on unparsed, or starts reading its body
\* and gives the event loop back.
JsonMiddleware ==
    /\ cur.stage = "json"
    /\ \/ /\ \E ct \in ContentTypes, raw \in {Absent} \cup UnparsedBodies,
               p \in RequestPaths :
               /\ JsonSkips(ct, raw)
               /\ cur' = [Visit(cur, "json") EXCEPT
                             !.ctype = ct, !.raw = raw, !.path = p,
                             !.body = DefaultBody(expressMajor),
                             !.stage = "route"]
          /\ UNCHANGED reading
       \/ /\ reading < MaxInFlight
          /\ reading' = reading + 1
          /\ cur' = Idle
    /\ UNCHANGED <<expressMajor, port, now, lastId, errorsSeen, clientVars>>

\* express.json(), once the body of a parked request has been read.
BodyRead ==
    /\ cur.stage = "idle"
    /\ reading > 0
    /\ \E m \in Methods \ {"OPTIONS"}, raw \in SentBodies, p \in RequestPaths :
         /\ reading' = reading - 1
         /\ LET c == [cur EXCEPT !.method = m, !.path = p, !.ctype = JsonType,
                                 !.raw = raw, !.trail = <<"cors", "json">>,
                                 !.res = [NewResponse EXCEPT !.headers =
                                    { [name |-> "Access-Control-Allow-Origin",
                                       value |-> "*"],
                                      [name |-> "Access-Control-Allow-Methods",
                                       value |-> "GET, POST, PUT, DELETE, OPTIONS"],
                                      [name |-> "Access-Control-Allow-Headers",
                                       value |-> "Content-Type, Authorization"] }]]
                fail == JsonFailure(raw)
            IN  cur' = IF fail # NoError
                       THEN [c EXCEPT !.err = fail, !.stage = "error"]
                       ELSE [c EXCEPT !.body = JsonParse(raw), !.stage = "route"]
    /\ UNCHANGED <<expressMajor, port, now, lastId, errorsSeen, clientVars>>

Routed(name) ==
    /\ cur.stage = "route"
    /\ Dispatch(cur.method, cur.path) = name

Handling(name) == [Visit(cur, name) EXCEPT !.route = name]

\* a health check that degrades once a request has ended in an error
GetHealth_Degrading ==
    /\ Routed("GET /health")
    /\ cur' = IF errorsSeen = {}
              THEN ResJson(Handling("GET /health"), 200, HealthPayload(now, port))
              ELSE ResJson(Handling("GET /health"), 503,
                           [HealthPayload(now, port) EXCEPT !.status = "degraded"])
    /\ UNCHANGED <<expressMajor, port, now, reading, lastId, errorsSeen, clientVars>>

GetHealth ==
    /\ Routed("GET /health")
    /\ cur' = ResJson(Handling("GET /health"), 200, HealthPayload(now, port))
    /\ UNCHANGED <<expressMajor, port, now, reading, lastId, errorsSeen, clientVars>>

GetRoot ==
    /\ Routed("GET /")
    /\ cur' = ResJson(Handling("GET /"), cur.res.status, RootPayload(port))
    /\ UNCHANGED <<expressMajor, port, now, reading, lastId, errorsSeen, clientVars>>

GetStatus ==
    /\ Routed("GET /api/status")
    /\ cur' = ResJson(Handling("GET /api/status"), cur.res.status, StatusPayload(now))
    /\ UNCHANGED <<expressMajor, port, now, reading, lastId, errorsSeen, clientVars>>

\* A submission handler that got as far as Date.now(): the id is issued.
Issue(name, payload) ==
    /\ cur' = [ResJson(Handling(name), cur.res.status, payload) EXCEPT
                  !.prevId = lastId[name]]
    /\ lastId' = [lastId EXCEPT ![name] = <<now>>]

PostContact ==
    /\ Routed("POST /api/contact")
    /\ \/ /\ cur.body.kind = "undefined"      \* destructuring undefined throws
          /\ cur' = [Handling("POST /api/contact") EXCEPT
                        !.err = [name |-> "TypeError",
                                 message |-> "Cannot destructure property 'name' of 'req.body' as it is undefined.",
                                 status |-> 0],
                        !.stage = "error"]
          /\ UNCHANGED lastId
       \/ /\ cur.body.kind # "undefined"
          /\ Issue("POST /api/contact", ContactPayload(cur.body, now))
    /\ UNCHANGED <<expressMajor, port, now, reading, errorsSeen, clientVars>>

PostIntake ==
    /\ Routed("POST /api/intake")
    /\ Issue("POST /api/intake", IntakePayload(now))
    /\ UNCHANGED <<expressMajor, port, now, reading, errorsSeen, clientVars>>

PostCatering ==
    /\ Routed("POST /api/catering")
    /\ Issue("POST /api/catering", CateringPayload(now))
    /\ UNCHANGED <<expressMajor, port, now, reading, errorsSeen, clientVars>>

\* Error handling middleware
ErrorMiddleware ==
    /\ cur.stage = "error"
    /\ cur' = ResJson(Visit(cur, "error"), 500, ErrorPayload(cur.err, now))
    /\ UNCHANGED <<expressMajor, port, now, reading, lastId, errorsSeen, clientVars>>

\* 404 handler
NotFound ==
    /\ Routed(NotFoundName)
    /\ cur' = ResJson(Handling(NotFoundName), 404, NotFoundPayload(now))
    /\ UNCHANGED <<expressMajor, port, now, reading, lastId, errorsSeen, clientVars>>

\* The response is out; the event loop is free again.
Finish ==
    /\ cur.stage = "done"
    /\ cur' = Idle
    /\ errorsSeen' = errorsSeen \cup ({cur.res.status} \cap {404, 500})
    /\ UNCHANGED <<expressMajor, port, now, reading, lastId, clientVars>>

(***************************************************************************)
(* The client connector.  What fetch() and response.json() settle with is  *)
(* the environment's choice.                                               *)
(***************************************************************************)
FormTypes == {"contact", "legal", "catering"}

\* JavaScript values a payload member can hold
JsUndefined == [type |-> "undefined"]
JsBool(b) == [type |-> "boolean", b |-> b]
JsString(str) == [type |-> "string", s |-> str]
JsNumber(k) == [type |-> "number", n |-> k]

\* ToBoolean
Truthy(v) ==
    CASE v.type = "boolean" -> v.b
      [] v.type = "string" -> v.s # ""
      [] v.type = "number" -> v.n # 0
      [] OTHER -> FALSE

\* What response.json() can resolve with: null, or an object of which the
\* members the connector reads are kept.
JsNull == [isNull |-> TRUE, success |-> JsUndefined, message |-> JsUndefined,
           status |-> JsUndefined]
JsObject(succ, msg, st) ==
    [isNull |-> FALSE, success |-> succ, message |-> msg, status |-> st]

HealthPayloads ==
    { JsNull,
      JsObject(JsUndefined, JsUndefined, JsUndefined),
      JsObject(JsUndefined, JsUndefined, JsString("healthy")),
      JsObject(JsUndefined, JsUndefined, JsString("degraded")) }

Payloads ==
    { JsNull,
      JsObject(JsBool(TRUE), JsString("Legal intake form submitted successfully"),
               JsString("pending_review")),
      JsObject(JsBool(FALSE), JsString("Internal server error"), JsUndefined),
      JsObject(JsString("yes"), JsUndefined, JsUndefined),
      JsObject(JsNumber(0), JsUndefined, JsUndefined) }

\* How the last submit of a form settled: still open, fetch rejected,
\* response.json() rejected, or the payload it resolved with.
Open == [how |-> "open", result |-> JsNull]
Rejected == [how |-> "rejected", result |-> JsNull]
Unparsable == [how |-> "unparsable", result |-> JsNull]
Resolved(result) == [how |-> "resolved", result |-> result]

NewForm == [stage |-> "idle", submits |-> 0, resets |-> 0, outcome |-> Open]

SuccessAlert(t) ==
    CASE t = "contact" -> "Thank you! Your message has been sent successfully."
      [] t = "legal" -> "Legal intake submitted! Case ID: ${result.case_id}"
      [] OTHER -> "Catering inquiry submitted! Inquiry ID: ${result.inquiry_id}"

ErrorAlert(t) ==
    CASE t = "contact" -> "Sorry, there was an error sending your message. Please try again."
      [] t = "legal" -> "Sorry, there was an error with your legal intake. Please try again."
      [] OTHER -> "Sorry, there was an error with your catering inquiry. Please try again."

\* the listener's catch block
AlertError(t, outcome) ==
    /\ alerts' = [alerts EXCEPT ![t] = Append(@, [kind |-> "error", text |-> ErrorAlert(t)])]
    /\ forms' = [forms EXCEPT ![t].stage = "idle", ![t].outcome = outcome]

\* the listener after the await: the success alert, then form.reset()
AlertSuccess(t, outcome) ==
    /\ alerts' = [alerts EXCEPT ![t] = Append(@, [kind |-> "success", text |-> SuccessAlert(t)])]
    /\ forms' = [forms EXCEPT ![t].stage = "idle", ![t].outcome = outcome,
                              ![t].resets = @ + 1]

\* success compared with true instead of tested for truthiness
ResultSucceeded_StrictTrue(result) == ~result.isNull /\ result.success = JsBool(TRUE)

\* if (result.success): reading a member of null throws
ResultSucceeded(result) == ~result.isNull /\ Truthy(result.success)

\* checkHealth(): await fetch(`${apiUrl}/health`)
CheckHealthFetched ==
    /\ health.stage = "fetching"
    /\ \E ok \in BOOLEAN :
         IF ok
         THEN /\ health' = [health EXCEPT !.stage = "parsing"]
              /\ UNCHANGED isHealthy
         ELSE /\ health' = [health EXCEPT !.stage = "failed"]
              /\ isHealthy' = FALSE
    /\ UNCHANGED <<forms, alerts, serverVars>>

\* checkHealth(): await response.json(), then data.status === 'healthy'
CheckHealthParsed ==
    /\ health.stage = "parsing"
    /\ \/ /\ health' = [health EXCEPT !.stage = "failed"]
          /\ isHealthy' = FALSE
       \/ \E data \in HealthPayloads :
            IF data.isNull
            THEN /\ health' = [health EXCEPT !.stage = "failed"]
                 /\ isHealthy' = FALSE
            ELSE /\ health' = [stage |-> "done", status |-> data.status]
                 /\ isHealthy' = (data.status = JsString("healthy"))
    /\ UNCHANGED <<forms, alerts, serverVars>>

TotalSubmits ==
    forms["contact"].submits + forms["legal"].submits + forms["catering"].submits

\* A submit event on the form of type t: the listener calls the submit method,
\* which starts the fetch.
SubmitForm(t) ==
    /\ forms[t].stage = "idle"
    /\ TotalSubmits < MaxSubmits
    /\ forms' = [forms EXCEPT ![t].stage = "fetching", ![t].submits = @ + 1,
                              ![t].outcome = Open]
    /\ UNCHANGED <<alerts, isHealthy, health, serverVars>>

\* await fetch(...) settles
SubmitFetched(t) ==
    /\ forms[t].stage = "fetching"
    /\ \/ /\ forms' = [forms EXCEPT ![t].stage = "parsing"]
          /\ UNCHANGED alerts
       \/ AlertError(t, Rejected)
    /\ UNCHANGED <<isHealthy, health, serverVars>>

\* await response.json() settles
SubmitParsed(t) ==
    /\ forms[t].stage = "parsing"
    /\ \/ AlertError(t, Unparsable)
       \/ \E result \in Payloads :
            IF ResultSucceeded(result)
            THEN AlertSuccess(t, Resolved(result))
            ELSE AlertError(t, Resolved(result))
    /\ UNCHANGED <<isHealthy, health, serverVars>>

Submit == \E t \in FormTypes : SubmitForm(t)
Fetched == \E t \in FormTypes : SubmitFetched(t)
Parsed == \E t \in FormTypes : SubmitParsed(t)

ServerInit ==
    /\ expressMajor \in {4, 5}
    /\ port \in PortValues
    /\ now = ClockStart
    /\ cur = Idle
    /\ reading = 0
    /\ lastId = [e \in SubmissionEndpoints |-> <<>>]
    /\ errorsSeen = {}

\* DOMContentLoaded: the connector is constructed (its health check starts)
\* and the listeners are bound.
ClientInit ==
    /\ isHealthy = FALSE
    /\ health = [stage |-> "fetching", status |-> JsUndefined]
    /\ forms = [t \in FormTypes |-> NewForm]
    /\ alerts = [t \in FormTypes |-> <<>>]

Init == ServerInit /\ ClientInit

Next ==
    \/ Tick
    \/ CorsMiddleware
    \/ JsonMiddleware
    \/ BodyRead
    \/ GetHealth
    \/ GetRoot
    \/ GetStatus
    \/ PostContact
    \/ PostIntake
    \/ PostCatering
    \/ ErrorMiddleware
    \/ NotFound
    \/ Finish

Spec == Init /\ [][Next]_vars

\* The connector alone, against a server that stays as it started.
ClientNext ==
    \/ CheckHealthFetched
    \/ CheckHealthParsed
    \/ Submit
    \/ Fetched
    \/ Parsed

ClientSpecInit == Init /\ expressMajor = 4 /\ port.type = "number"

ClientSpec == ClientSpecInit /\ [][ClientNext]_vars

(***************************************************************************)
(* Properties.                                                             *)
(***************************************************************************)
Done == cur.stage = "done"

RangeOf(seq) == {seq[i] : i \in DOMAIN seq}

\* the route handlers that ran for the request in hand
HandlersRun == {i \in DOMAIN cur.trail : cur.trail[i] \in RouteNames}

DigitChars == {"0", "1", "2", "3", "4", "5", "6", "7", "8", "9"}

\* id is prefix followed by one or more decimal digits
MatchesId(id, prefix) ==
    /\ Len(id) > Len(prefix)
    /\ SubSeq(id, 1, Len(prefix)) = prefix
    /\ \A i \in (Len(prefix) + 1)..Len(id) : id[i] \in DigitChars

DigitValue(ch) ==
    CASE ch = "0" -> 0 [] ch = "1" -> 1 [] ch = "2" -> 2 [] ch = "3" -> 3
      [] ch = "4" -> 4 [] ch = "5" -> 5 [] ch = "6" -> 6 [] ch = "7" -> 7
      [] ch = "8" -> 8 [] ch = "9" -> 9

RECURSIVE NumberOf(_)
NumberOf(ds) ==
    IF ds = <<>> THEN 0
    ELSE 10 * NumberOf(SubSeq(ds, 1, Len(ds) - 1)) + DigitValue(ds[Len(ds)])

\* the number after the prefix of an id
SuffixOf(id, prefix) == NumberOf(SubSeq(id, Len(prefix) + 1, Len(id)))

\* express.json() refuses the request in hand: a body sent as application/json
\* that is over 100kb, is not JSON, or is JSON but neither object nor array
ParserRejects ==
    /\ cur.ctype = JsonType
    /\ cur.raw.kind # "absent"
    /\ \/ cur.raw.len > JsonLimit
       \/ cur.raw.kind \in {"malformed", "primitive"}

PermissiveCors ==
    { [name |-> "Access-Control-Allow-Origin", value |-> "*"],
      [name |-> "Access-Control-Allow-Methods",
       value |-> "GET, POST, PUT, DELETE, OPTIONS"],
      [name |-> "Access-Control-Allow-Headers",
       value |-> "Content-Type, Authorization"] }

IsNotFoundResponse ==
    /\ cur.res.status = 404
    /\ cur.res.body.type = "json"
    /\ cur.res.body.value.success = FALSE
    /\ cur.res.body.value.message = "Endpoint not found"
    /\ cur.res.body.value.available_endpoints =
         <<"/", "/health", "/api/status", "/api/contact", "/api/intake", "/api/catering">>

\* the route registered for exactly this method and path, if any
ExactRoutes(m, p) ==
    {r \in RangeOf(Routes) : r.method = m /\ r.path = p}

\* exactly the handler of route set rs ran, and the 404 handler did not
OnlyHandler(rs) ==
    /\ Cardinality(HandlersRun) = 1
    /\ \A r \in rs : cur.route = r.name /\ r.name \in RangeOf(cur.trail)
    /\ NotFoundName \notin RangeOf(cur.trail)

\* C1 as stated: dispatch of a non-OPTIONS request is by exact method and
\* path; one of the six handlers runs for a registered pair, every other pair
\* (a known path with the wrong method too) gets the 404 response; one
\* response per request.
C1_ExactDispatch ==
    (Done /\ cur.method # "OPTIONS") =>
        /\ cur.sent = 1
        /\ IF ExactRoutes(cur.method, cur.path) # {}
           THEN OnlyHandler(ExactRoutes(cur.method, cur.path))
           ELSE HandlersRun = {} /\ IsNotFoundResponse

\* the path as the routes compare it: letter case and one trailing slash aside
CanonicalPath(p) ==
    CASE p = <<"HEALTH">> -> <<"health">>
      [] p = <<"api", "intake", "">> -> <<"api", "intake">>
      [] OTHER -> p

CanonicalMethod(m) == IF m = "HEAD" THEN "GET" ELSE m

\* C1 amended: paths are compared without regard to letter case or one
\* trailing slash, HEAD is served by the GET routes, and a request whose body
\* express.json() refuses runs no handler and gets 500 from the error
\* middleware; otherwise exactly one of the six handlers runs for a registered
\* pair and every other pair gets the 404 response; one response per request.
C1_Dispatch ==
    Done =>
        /\ cur.sent = 1
        /\ cur.method # "OPTIONS" =>
             IF ParserRejects
             THEN /\ HandlersRun = {}
                  /\ NotFoundName \notin RangeOf(cur.trail)
                  /\ cur.res.status = 500
             ELSE LET rs == ExactRoutes(CanonicalMethod(cur.method),
                                        CanonicalPath(cur.path))
                  IN  IF rs # {}
                      THEN OnlyHandler(rs)
                      ELSE HandlersRun = {} /\ IsNotFoundResponse

\* C1 witness: a known path with the wrong method has got the 404 response.
C1_Witness ==
    /\ Done
    /\ cur.method = "GET"
    /\ cur.path = ContactPath
    /\ IsNotFoundResponse

\* C2 as stated: an OPTIONS request is answered by the CORS middleware alone
\* with 200, the three CORS headers and no body.
C2_OptionsNoBody ==
    cur.method = "OPTIONS" =>
        /\ Done
        /\ cur.trail = <<"cors">>
        /\ cur.sent = 1
        /\ cur.res.status = 200
        /\ cur.res.headers = PermissiveCors
        /\ cur.res.body = NoBody

\* C2 amended: an OPTIONS request is answered by the CORS middleware alone
\* (no body parsing, route handler, error middleware or 404 handler) with 200
\* and the three CORS headers; the body is the status text "OK".
C2_Options ==
    cur.method = "OPTIONS" =>
        /\ Done
        /\ cur.trail = <<"cors">>
        /\ cur.err = NoError
        /\ cur.sent = 1
        /\ cur.res.status = 200
        /\ cur.res.headers = PermissiveCors
        /\ cur.res.body = [type |-> "text", value |-> "OK"]

\* C2 witness: an OPTIONS request has been answered.
C2_Witness == Done /\ cur.method = "OPTIONS" /\ cur.res.status = 200

IsContactAck ==
    /\ cur.res.status = 200
    /\ cur.res.body.type = "json"
    /\ LET v == cur.res.body.value
       IN  /\ "contact_id" \in DOMAIN v
           /\ v.success = TRUE
           /\ MatchesId(v.contact_id, <<"B", "W", "M", "_">>)
           /\ Len(v.next_steps) = 4
           /\ v.next_steps[3] =
                <<"You'll receive a response within ", v.estimated_response_time>>

PostedTo(p) == Done /\ cur.method = "POST" /\ cur.path = p

\* C3 as stated: every valid JSON body posted to /api/contact gets the success
\* acknowledgment (contact_id BWM_<digits>, 4 next steps, the third one
\* carrying the estimate).
C3_AnyValidJson ==
    (PostedTo(ContactPath) /\ cur.raw.kind \in {"object", "array", "primitive"})
        => IsContactAck

\* C3 amended: every JSON object or array of at most 100kb posted to
\* /api/contact as application/json gets the success acknowledgment.
C3_ContactAck ==
    ( /\ PostedTo(ContactPath)
      /\ cur.ctype = JsonType
      /\ cur.raw.kind \in {"object", "array"}
      /\ cur.raw.len <= JsonLimit )
        => IsContactAck

\* C3 witness: an object of exactly the limit's size has been acknowledged.
C3_Witness ==
    /\ PostedTo(ContactPath)
    /\ cur.ctype = JsonType
    /\ cur.raw = ObjectBody("legal", JsonLimit)
    /\ IsContactAck

\* the service_type the contact handler finds in req.body
ServiceTypeSeen ==
    IF cur.ctype = JsonType /\ cur.raw.kind = "object"
    THEN cur.raw.service_type
    ELSE Undefined

SubmissionPaths == {ContactPath, IntakePath, CateringPath}

IsSuccessAck ==
    /\ cur.res.status = 200
    /\ cur.res.body.type = "json"
    /\ cur.res.body.value.success = TRUE

IsErrorResponse ==
    /\ cur.res.status = 500
    /\ cur.res.body.type = "json"
    /\ cur.res.body.value.success = FALSE
    /\ cur.res.body.value.message = "Internal server error"
    /\ cur.res.body.value.error = cur.err.message

\* C5 as stated: a POST to a submission path with a malformed or absent body
\* reaches the handler and gets the success acknowledgment.
C5_NeverRejected ==
    (Done /\ cur.method = "POST" /\ cur.path \in SubmissionPaths
          /\ cur.raw.kind \in {"absent", "malformed"}) =>
        /\ OnlyHandler(ExactRoutes("POST", cur.path))
        /\ IsSuccessAck

\* C5 amended: a malformed body sent as application/json is refused by
\* express.json(): no handler runs and the error middleware answers 500.  An
\* absent body, or a malformed one sent as another content type, reaches the
\* submission handler; /api/intake and /api/catering acknowledge it, and
\* /api/contact does where req.body defaults to {} (Express 4), while where
\* it is left undefined (Express 5) the destructuring throws and the answer
\* is 500.
C5_MalformedOrAbsent ==
    (Done /\ cur.method = "POST" /\ cur.path \in SubmissionPaths
          /\ cur.raw.kind \in {"absent", "malformed"}) =>
        IF cur.raw.kind = "malformed" /\ cur.ctype = JsonType
        THEN HandlersRun = {} /\ IsErrorResponse
        ELSE /\ OnlyHandler(ExactRoutes("POST", cur.path))
             /\ IF cur.path = ContactPath /\ expressMajor = 5
                THEN IsErrorResponse
                ELSE IsSuccessAck

\* C5 witness: an intake POST without a body has been acknowledged.
C5_Witness ==
    /\ PostedTo(IntakePath)
    /\ cur.raw.kind = "absent"
    /\ IsSuccessAck

\* C6: a request on which an error was raised goes to the error middleware
\* and nowhere else, and is answered once, with 500 and the error's message.
C6_Errors ==
    cur.err # NoError =>
        /\ cur.stage \in {"error", "done"}
        /\ NotFoundName \notin RangeOf(cur.trail)
        /\ Done =>
             /\ IsErrorResponse
             /\ "timestamp" \in DOMAIN cur.res.body.value
             /\ cur.sent = 1
             /\ cur.trail[Len(cur.trail)] = "error"
             /\ Cardinality({i \in DOMAIN cur.trail : cur.trail[i] = "error"}) = 1

\* C6 witness: an error thrown by a route handler has been answered with 500.
C6_Witness ==
    /\ Done
    /\ cur.err.name = "TypeError"
    /\ cur.route = "POST /api/contact"
    /\ cur.res.status = 500

IsHealthyResponse ==
    /\ cur.res.status = 200
    /\ cur.res.body.type = "json"
    /\ LET v == cur.res.body.value
       IN  /\ DOMAIN v = {"status", "timestamp", "port", "service"}
           /\ v.status = "healthy"
           /\ v.port = port
           /\ v.service = "byword-intake-api"

\* C7 as stated: every GET /health is answered 200 "healthy", whatever came
\* before.
C7_AlwaysHealthy ==
    (Done /\ cur.method = "GET" /\ cur.path = HealthPath) => IsHealthyResponse

\* C7 amended: every GET /health whose body express.json() does not refuse is
\* answered 200 "healthy" with port and service name, whatever requests came
\* before and however they ended.
C7_Health ==
    (Done /\ cur.method = "GET" /\ cur.path = HealthPath /\ ~ParserRejects)
        => IsHealthyResponse

\* C7 witness: healthy after earlier requests ended in 404 and in 500.
C7_Witness ==
    /\ Done
    /\ cur.method = "GET"
    /\ cur.path = HealthPath
    /\ errorsSeen = {404, 500}
    /\ IsHealthyResponse

\* the number in the id the submission handler has just issued
IssuedSuffix ==
    LET v == cur.res.body.value
    IN  CASE cur.route = "POST /api/contact" -> SuffixOf(v.contact_id, ContactPrefix)
          [] cur.route = "POST /api/intake" -> SuffixOf(v.case_id, IntakePrefix)
          [] cur.route = "POST /api/catering" -> SuffixOf(v.inquiry_id, CateringPrefix)

HasIssued == Done /\ cur.route \in SubmissionEndpoints /\ cur.res.status = 200

\* C8 as stated: an id's number is larger than that of the id the same
\* endpoint issued before it.
C8_Distinct ==
    (HasIssued /\ cur.prevId # <<>>) => cur.prevId[1] < IssuedSuffix

\* C8 amended: an id's number is at least that of the id the same endpoint
\* issued before it (so, of every earlier one); two requests handled within
\* the same millisecond get the same id.
C8_Monotone ==
    HasIssued =>
        /\ IssuedSuffix <= now
        /\ lastId[cur.route] = <<IssuedSuffix>>
        /\ cur.prevId # <<>> => cur.prevId[1] <= IssuedSuffix

\* C8 witness: two contact ids collide while another request is in flight.
C8_Witness ==
    /\ HasIssued
    /\ cur.route = "POST /api/contact"
    /\ cur.prevId = <<IssuedSuffix>>
    /\ reading > 0

IsIntakeAck ==
    /\ cur.res.status = 200
    /\ cur.res.body.type = "json"
    /\ LET v == cur.res.body.value
       IN  /\ "case_id" \in DOMAIN v
           /\ v.success = TRUE
           /\ MatchesId(v.case_id, <<"L", "E", "G", "A", "L", "_">>)
           /\ v.status = "pending_review"
           /\ v.next_steps = <<"Case has been assigned a unique ID",
                               "Legal team will review within 24 hours",
                               "You'll receive a consultation scheduling email",
                               "All communications will reference your case ID">>
           /\ v.estimated_consultation = "3-5 business days"
           /\ v.message = "Legal intake form submitted successfully"

\* C9 as stated: every JSON object posted to /api/intake gets the intake
\* acknowledgment.
C9_AnyObject ==
    (PostedTo(IntakePath) /\ cur.raw.kind = "object") => IsIntakeAck

\* C9 amended: every JSON object posted to /api/intake, {} included, gets the
\* same intake acknowledgment, unless it is sent as application/json and is
\* over 100kb.
C9_IntakeAck ==
    ( /\ PostedTo(IntakePath)
      /\ cur.raw.kind = "object"
      /\ ~(cur.ctype = JsonType /\ cur.raw.len > JsonLimit) )
        => IsIntakeAck

\* C9 witness: {} has been acknowledged.
C9_Witness ==
    /\ PostedTo(IntakePath)
    /\ cur.ctype = JsonType
    /\ cur.raw = ObjectBody(Undefined, 2)
    /\ IsIntakeAck

\* the payload's success member converts to true
SuccessIsTruthy(result) ==
    /\ ~result.isNull
    /\ result.success \notin
         { [type |-> "undefined"], [type |-> "boolean", b |-> FALSE],
           [type |-> "number", n |-> 0], [type |-> "string", s |-> ""] }

SuccessAlerts(t) == {i \in DOMAIN alerts[t] : alerts[t][i].kind = "success"}

\* C10: every settled submit has shown exactly one alert: the success alert
\* (and a reset of the form) if the payload's success member is truthy, the
\* error alert (and no reset) if fetch rejected, the response was not JSON, or
\* success is falsy.  A submit can start whatever isHealthy is, and isHealthy
\* is true only after a health payload whose status is "healthy".
C10_Alerts ==
    /\ \A t \in FormTypes :
         LET f == forms[t]
             a == alerts[t]
         IN  /\ Len(a) = f.submits - (IF f.stage = "idle" THEN 0 ELSE 1)
             /\ f.resets = Cardinality(SuccessAlerts(t))
             /\ (f.stage = "idle" /\ f.submits > 0) =>
                  IF f.outcome.how = "resolved" /\ SuccessIsTruthy(f.outcome.result)
                  THEN a[Len(a)] = [kind |-> "success", text |-> SuccessAlert(t)]
                  ELSE /\ f.outcome.how \in {"rejected", "unparsable", "resolved"}
                       /\ a[Len(a)] = [kind |-> "error", text |-> ErrorAlert(t)]
             /\ (f.stage = "idle" /\ TotalSubmits < MaxSubmits) => ENABLED SubmitForm(t)
    /\ isHealthy =>
         health = [stage |-> "done", status |-> [type |-> "string", s |-> "healthy"]]

\* C10 witness: a truthy, non-boolean success has led to the success alert
\* and a reset although the health check had failed.
C10_Witness ==
    /\ ~isHealthy
    /\ health.stage = "failed"
    /\ forms["legal"].stage = "idle"
    /\ forms["legal"].resets = 1
    /\ forms["legal"].outcome.how = "resolved"
    /\ forms["legal"].outcome.result.success = [type |-> "string", s |-> "yes"]
    /\ alerts["legal"] = <<[kind |-> "success", text |-> SuccessAlert("legal")]>>

====
